---------------------------- MODULE Spec2Model ----------------------------
(***************************************************************************)
(* TxPID module of the flight firmware (flight/modules/TxPID/txpid.c):     *)
(* a periodic callback, updatePIDs, that maps the throttle or an accessory *)
(* channel onto PID gains of a stabilization bank and onto GyroTau of the  *)
(* stabilization settings.                                                 *)
(*                                                                         *)
(* Numbers.  The C code computes in `float'.  Here a float is a rational  *)
(* <<n, d>> in lowest terms with d > 0 whose value has a binary            *)
(* significand of at most MantBits bits, and every +, -, * and / rounds    *)
(* its exact result to the nearest such value, ties to the even            *)
(* significand, as IEEE 754 arithmetic does with 24 bits.  The exponent is *)
(* not bounded: overflow to an infinity, NaN and subnormal numbers are not *)
(* modelled.  PID gains (MinPID, MaxPID, the bank fields, GyroTau) are     *)
(* counted in units of 1e-9, so that the threshold 1e-9f of update() is    *)
(* the number 1.  Input quantities (throttle, accessory values and their   *)
(* ranges) are in their own units, where the accessory range is            *)
(* -1.0f .. 1.0f.                                                          *)
(***************************************************************************)
EXTENDS Integers, Sequences, FiniteSets, TLC

\* ------------------------------------------------------------------------
\* Rounded rational arithmetic standing for the float operators of the code
\* ------------------------------------------------------------------------

IAbs(x) == IF x < 0 THEN -x ELSE x

RECURSIVE Gcd(_, _)
Gcd(a, b) == IF b = 0 THEN a ELSE Gcd(b, a % b)

\* the rational n/d (d # 0) in lowest terms with a positive denominator
Rat(n, d) ==
    LET g == Gcd(IAbs(n), IAbs(d))
        s == IF d < 0 THEN -1 ELSE 1
    IN  <<(s * n) \div g, (s * d) \div g>>

\* the number of bits of the significand of a float (24 in the C code)
MantBits == 4

RECURSIVE Pow2(_)
Pow2(k) == IF k = 0 THEN 1 ELSE 2 * Pow2(k - 1)

\* the least significand of MantBits bits
MantMin == Pow2(MantBits - 1)

\* (a/d) * (sn/sd), for a/d > 0 and sn/sd a power of two, rounded to MantBits
\* significant bits: a/d is brought into [2^(MantBits-1), 2^MantBits) and
\* rounded to the nearest integer, a tie to the even one
RECURSIVE RoundPos(_, _, _, _)
RoundPos(a, d, sn, sd) ==
    IF a < MantMin * d THEN RoundPos(2 * a, d, sn, 2 * sd)
    ELSE IF a >= 2 * MantMin * d THEN RoundPos(a, 2 * d, 2 * sn, sd)
    ELSE LET q == a \div d
             r == a % d
             m == IF 2 * r > d \/ (2 * r = d /\ q % 2 = 1) THEN q + 1 ELSE q
         IN  Rat(m * sn, sd)

\* the float nearest to the rational x
Round(x) ==
    IF x[1] = 0 THEN <<0, 1>>
    ELSE LET p == RoundPos(IAbs(x[1]), x[2], 1, 1)
         IN  <<(IF x[1] < 0 THEN -1 ELSE 1) * p[1], p[2]>>

FAdd(a, b) == Round(Rat(a[1] * b[2] + b[1] * a[2], a[2] * b[2]))
FSub(a, b) == Round(Rat(a[1] * b[2] - b[1] * a[2], a[2] * b[2]))
FMul(a, b) == Round(Rat(a[1] * b[1], a[2] * b[2]))
FDiv(a, b) == Round(Rat(a[1] * b[2], a[2] * b[1]))
FGt(a, b) == a[1] * b[2] > b[1] * a[2]
FLt(a, b) == a[1] * b[2] < b[1] * a[2]
FLe(a, b) == a[1] * b[2] <= b[1] * a[2]
fabsf(a) == <<IAbs(a[1]), a[2]>>

\* float literals of the code
F0 == <<0, 1>>
F1 == <<1, 1>>
FNeg1 == <<-1, 1>>
\* 1e-9f, in the gain unit of 1e-9
EPSILON == <<1, 1>>

\* ------------------------------------------------------------------------
\* scale() and update()
\* ------------------------------------------------------------------------

\* Faulty variant of scale (sensitivity of C17): the output bounds are
\* exchanged when outMin > outMax, but val is not mirrored.
scale_NoMirror(val, inMin, inMax, outMin, outMax) ==
    LET v1 == IF FGt(val, inMax) THEN inMax ELSE val
        v2 == IF FLt(v1, inMin) THEN inMin ELSE v1
        v3 == IF FLe(inMax, inMin) THEN F0
              ELSE FDiv(FSub(v2, inMin), FSub(inMax, inMin))
        swap == FGt(outMin, outMax)
        oMin == IF swap THEN outMax ELSE outMin
        oMax == IF swap THEN outMin ELSE outMax
    IN  FAdd(FMul(FSub(oMax, oMin), v3), oMin)

\* Faulty variant of scale (sensitivity of C18): inMin is not subtracted from
\* val before the division.
scale_NoOffset(val, inMin, inMax, outMin, outMax) ==
    LET v1 == IF FGt(val, inMax) THEN inMax ELSE val
        v2 == IF FLt(v1, inMin) THEN inMin ELSE v1
        v3 == IF FLe(inMax, inMin) THEN F0
              ELSE FDiv(v2, FSub(inMax, inMin))
        swap == FGt(outMin, outMax)
        oMin == IF swap THEN outMax ELSE outMin
        oMax == IF swap THEN outMin ELSE outMax
        v4 == IF swap THEN FSub(F1, v3) ELSE v3
    IN  FAdd(FMul(FSub(oMax, oMin), v4), oMin)

\* static float scale(float val, float inMin, float inMax, float outMin, float outMax)
scale(val, inMin, inMax, outMin, outMax) ==
    LET v1 == IF FGt(val, inMax) THEN inMax ELSE val
        v2 == IF FLt(v1, inMin) THEN inMin ELSE v1
        v3 == IF FLe(inMax, inMin) THEN F0
              ELSE FDiv(FSub(v2, inMin), FSub(inMax, inMin))
        swap == FGt(outMin, outMax)
        oMin == IF swap THEN outMax ELSE outMin
        oMax == IF swap THEN outMin ELSE outMax
        v4 == IF swap THEN FSub(F1, v3) ELSE v3
    IN  FAdd(FMul(FSub(oMax, oMin), v4), oMin)

\* Faulty variants of update.  Sensitivity of C2: the change is reported but
\* the value is not assigned.
update_NoStore(var, val) ==
    IF FGt(fabsf(FSub(var, val)), EPSILON)
    THEN [var |-> var, ret |-> 1]
    ELSE [var |-> var, ret |-> 0]

\* Sensitivity of C4: the value is assigned and reported as a change always.
update_AlwaysChanged(var, val) == [var |-> val, ret |-> 1]

\* Sensitivity of C10: the values are compared for inequality, with no epsilon.
update_ExactCompare(var, val) ==
    IF var # val
    THEN [var |-> val, ret |-> 1]
    ELSE [var |-> var, ret |-> 0]

\* static uint8_t update(float *var, float val): the new *var and the result
update(var, val) ==
    IF FGt(fabsf(FSub(var, val)), EPSILON)
    THEN [var |-> val, ret |-> 1]
    ELSE [var |-> var, ret |-> 0]

\* ------------------------------------------------------------------------
\* Enumerations and records of the UAVObjects the module uses
\* ------------------------------------------------------------------------

\* TXPIDSETTINGS_PIDS_NUMELEM: the slots are Instance1 .. Instance<NUMELEM>
NUMELEM == 2
Slots == 1 .. NUMELEM

\* TXPIDSETTINGS_INPUTS_*: THROTTLE, then one value per accessory instance
THROTTLE == 0
ACCESSORY0 == 1

\* TXPIDSETTINGS_PIDS_*: the targets the switch of updatePIDs names
BankTargets ==
    {"ROLLRATEKP", "ROLLRATEKI", "ROLLRATEKD", "ROLLRATEILIMIT",
     "ROLLATTITUDEKP", "ROLLATTITUDEKI", "ROLLATTITUDEILIMIT",
     "PITCHRATEKP", "PITCHRATEKI", "PITCHRATEKD", "PITCHRATEILIMIT",
     "PITCHATTITUDEKP", "PITCHATTITUDEKI", "PITCHATTITUDEILIMIT",
     "ROLLPITCHRATEKP", "ROLLPITCHRATEKI", "ROLLPITCHRATEKD",
     "ROLLPITCHRATEILIMIT", "ROLLPITCHATTITUDEKP", "ROLLPITCHATTITUDEKI",
     "ROLLPITCHATTITUDEILIMIT",
     "YAWRATEKP", "YAWRATEKI", "YAWRATEKD", "YAWRATEILIMIT",
     "YAWATTITUDEKP", "YAWATTITUDEKI", "YAWATTITUDEILIMIT"}
KnownTargets == BankTargets \cup {"GYROTAU"}
\* a value of the uint8 field PIDs[i] that is none of the enumeration's
INVALIDPID == "INVALID"

\* StabilizationBankData: the rate tuples carry Kp, Ki, Kd, ILimit and the
\* attitude tuples Kp, Ki, ILimit
RateGroups == {"RollRatePID", "PitchRatePID", "YawRatePID"}
AttitudeGroups == {"RollPI", "PitchPI", "YawPI"}
BankOf(v) ==
    [g \in RateGroups \cup AttitudeGroups |->
        IF g \in RateGroups
        THEN [Kp |-> v, Ki |-> v, Kd |-> v, ILimit |-> v]
        ELSE [Kp |-> v, Ki |-> v, ILimit |-> v]]

\* the destinations of a target, as <<group, field>> of the bank, in the
\* order the switch updates them; GYROTAU has none in the bank
Dest(pid) ==
    CASE pid = "ROLLRATEKP"              -> <<<<"RollRatePID", "Kp">>>>
      [] pid = "ROLLRATEKI"              -> <<<<"RollRatePID", "Ki">>>>
      [] pid = "ROLLRATEKD"              -> <<<<"RollRatePID", "Kd">>>>
      [] pid = "ROLLRATEILIMIT"          -> <<<<"RollRatePID", "ILimit">>>>
      [] pid = "ROLLATTITUDEKP"          -> <<<<"RollPI", "Kp">>>>
      [] pid = "ROLLATTITUDEKI"          -> <<<<"RollPI", "Ki">>>>
      [] pid = "ROLLATTITUDEILIMIT"      -> <<<<"RollPI", "ILimit">>>>
      [] pid = "PITCHRATEKP"             -> <<<<"PitchRatePID", "Kp">>>>
      [] pid = "PITCHRATEKI"             -> <<<<"PitchRatePID", "Ki">>>>
      [] pid = "PITCHRATEKD"             -> <<<<"PitchRatePID", "Kd">>>>
      [] pid = "PITCHRATEILIMIT"         -> <<<<"PitchRatePID", "ILimit">>>>
      [] pid = "PITCHATTITUDEKP"         -> <<<<"PitchPI", "Kp">>>>
      [] pid = "PITCHATTITUDEKI"         -> <<<<"PitchPI", "Ki">>>>
      [] pid = "PITCHATTITUDEILIMIT"     -> <<<<"PitchPI", "ILimit">>>>
      [] pid = "ROLLPITCHRATEKP"         ->
            <<<<"RollRatePID", "Kp">>, <<"PitchRatePID", "Kp">>>>
      [] pid = "ROLLPITCHRATEKI"         ->
            <<<<"RollRatePID", "Ki">>, <<"PitchRatePID", "Ki">>>>
      [] pid = "ROLLPITCHRATEKD"         ->
            <<<<"RollRatePID", "Kd">>, <<"PitchRatePID", "Kd">>>>
      [] pid = "ROLLPITCHRATEILIMIT"     ->
            <<<<"RollRatePID", "ILimit">>, <<"PitchRatePID", "ILimit">>>>
      [] pid = "ROLLPITCHATTITUDEKP"     ->
            <<<<"RollPI", "Kp">>, <<"PitchPI", "Kp">>>>
      [] pid = "ROLLPITCHATTITUDEKI"     ->
            <<<<"RollPI", "Ki">>, <<"PitchPI", "Ki">>>>
      [] pid = "ROLLPITCHATTITUDEILIMIT" ->
            <<<<"RollPI", "ILimit">>, <<"PitchPI", "ILimit">>>>
      [] pid = "YAWRATEKP"               -> <<<<"YawRatePID", "Kp">>>>
      [] pid = "YAWRATEKI"               -> <<<<"YawRatePID", "Ki">>>>
      [] pid = "YAWRATEKD"               -> <<<<"YawRatePID", "Kd">>>>
      [] pid = "YAWRATEILIMIT"           -> <<<<"YawRatePID", "ILimit">>>>
      [] pid = "YAWATTITUDEKP"           -> <<<<"YawPI", "Kp">>>>
      [] pid = "YAWATTITUDEKI"           -> <<<<"YawPI", "Ki">>>>
      [] pid = "YAWATTITUDEILIMIT"       -> <<<<"YawPI", "ILimit">>>>
      [] OTHER                           -> <<>>

\* ------------------------------------------------------------------------
\* State
\* ------------------------------------------------------------------------

VARIABLES
    updateModeEnum,   \* the values of TXPIDSETTINGS_UPDATEMODE_{NEVER,WHENARMED,ALWAYS}
    hwsettings,       \* HwSettings.OptionalModules.TxPID
    txpidsettings,    \* TxPIDSettings: UpdateMode, PIDs, Inputs, MinPID, MaxPID, ThrottleRange
    flightstatus,     \* FlightStatus.Armed
    throttle,         \* ManualControlCommand.Throttle
    accessorydesired, \* AccessoryDesired: the values of instances 0, 1, ...
    bank1,            \* StabilizationSettingsBank1
    bank2,            \* StabilizationSettingsBank2
    bank3,            \* StabilizationSettingsBank3
    stabsettings,     \* StabilizationSettings
    initialized,      \* the UAVObjects TxPIDInitialize has initialized
    callbacks,        \* the periodic callbacks registered, as events
    initret,          \* <<r>> once TxPIDInitialize has returned r, <<>> before
    halted,           \* PIOS_Assert(0) was reached: the firmware has stopped
    ops,              \* the UAVObject calls of the latest tick, in order
    pre,              \* the banks and the settings as the latest tick found them
    consec,           \* ticks run since the last change made by another task
    nticks,           \* ticks run
    scaleIn,          \* the arguments of a call of scale() on its own
    scaleOut,         \* <<r>> once that call has returned r, <<>> before
    local,            \* a tick run call by call: where it is, and its locals
    late              \* <<record, field, value>> set by another task meanwhile

tickVars == <<updateModeEnum, hwsettings, txpidsettings, flightstatus, throttle,
              accessorydesired, bank1, bank2, bank3, stabsettings, initialized,
              callbacks, initret, halted, ops, pre, consec, nticks>>
scaleVars == <<scaleIn, scaleOut>>
raceVars == <<local, late>>
vars == <<tickVars, scaleVars, raceVars>>

\* the generated header txpidsettings.h sets these; it is not among the sources
TXPIDSETTINGS_UPDATEMODE_NEVER == updateModeEnum.NEVER
TXPIDSETTINGS_UPDATEMODE_WHENARMED == updateModeEnum.WHENARMED
TXPIDSETTINGS_UPDATEMODE_ALWAYS == updateModeEnum.ALWAYS

\* the UAVObjects a tick reads and writes, as one record
Objs ==
    [TxPIDSettings |-> txpidsettings, Armed |-> flightstatus,
     Throttle |-> throttle, AccessoryDesired |-> accessorydesired,
     Bank1 |-> bank1, Bank2 |-> bank2, Bank3 |-> bank3,
     StabilizationSettings |-> stabsettings]

\* AccessoryDesiredInstGet(instId, &accessory): 0 and the instance's data, or
\* -1 when the instance does not exist
AccessoryDesiredInstGet(acc, instId) ==
    IF instId >= 0 /\ instId < Len(acc)
    THEN [ret |-> 0, AccessoryVal |-> acc[instId + 1]]
    ELSE [ret |-> -1, AccessoryVal |-> F0]

\* ------------------------------------------------------------------------
\* updatePIDs
\* ------------------------------------------------------------------------

\* uint8_t x |= y for x, y in {0, 1}
BitOr(x, y) == IF x = 1 \/ y = 1 THEN 1 ELSE 0

\* needsUpdateBank |= update(&bank.<group>.<field>, value)
UpdateBankField(st, d, value) ==
    LET u == update(st.bank[d[1]][d[2]], value)
    IN  [st EXCEPT !.bank[d[1]][d[2]] = u.var,
                   !.needsUpdateBank = BitOr(@, u.ret)]

\* Faulty variant of UpdateGyroTau (sensitivity of C7): the change of GyroTau
\* marks the bank.
UpdateGyroTau_MarksBank(st, value) ==
    LET u == update(st.stab.GyroTau, value)
    IN  [st EXCEPT !.stab.GyroTau = u.var,
                   !.needsUpdateBank = BitOr(@, u.ret)]

\* needsUpdateStab |= update(&stab.GyroTau, value)
UpdateGyroTau(st, value) ==
    LET u == update(st.stab.GyroTau, value)
    IN  [st EXCEPT !.stab.GyroTau = u.var,
                   !.needsUpdateStab = BitOr(@, u.ret)]

\* Faulty variant of Dispatch (sensitivity of C5): a coupled target updates
\* its roll field only.
Dispatch_RollOnly(pid, value, st) ==
    IF pid \in BankTargets
    THEN UpdateBankField(st, Dest(pid)[1], value)
    ELSE IF pid = "GYROTAU"
    THEN UpdateGyroTau(st, value)
    ELSE [st EXCEPT !.asserted = TRUE]

\* Faulty variant of Dispatch (sensitivity of C19): the case of ROLLRATEKP
\* has no break and falls through to the case of ROLLRATEKI.
Dispatch_FallThrough(pid, value, st) ==
    IF pid = "ROLLRATEKP"
    THEN UpdateBankField(UpdateBankField(st, <<"RollRatePID", "Kp">>, value),
                         <<"RollRatePID", "Ki">>, value)
    ELSE IF pid \in BankTargets
    THEN LET d == Dest(pid)
             s1 == UpdateBankField(st, d[1], value)
         IN  IF Len(d) = 2 THEN UpdateBankField(s1, d[2], value) ELSE s1
    ELSE IF pid = "GYROTAU"
    THEN UpdateGyroTau(st, value)
    ELSE [st EXCEPT !.asserted = TRUE]

\* the switch on PIDs[i]
Dispatch(pid, value, st) ==
    IF pid \in BankTargets
    THEN LET d == Dest(pid)
             s1 == UpdateBankField(st, d[1], value)
         IN  IF Len(d) = 2 THEN UpdateBankField(s1, d[2], value) ELSE s1
    ELSE IF pid = "GYROTAU"
    THEN UpdateGyroTau(st, value)
    ELSE [st EXCEPT !.asserted = TRUE]

\* Faulty variant of ReadInput (sensitivity of C16): the result of
\* AccessoryDesiredInstGet is not tested, and the value of an absent
\* instance is taken to be 0.
ReadInput_ResultIgnored(o, i) ==
    LET inst == o.TxPIDSettings
    IN  IF inst.Inputs[i] = THROTTLE
        THEN [ok |-> TRUE, op |-> "ManualControlCommandThrottleGet",
              value |-> scale(o.Throttle, inst.ThrottleRange.Min,
                              inst.ThrottleRange.Max, inst.MinPID[i], inst.MaxPID[i])]
        ELSE [ok |-> TRUE, op |-> "AccessoryDesiredInstGet",
              value |-> scale(AccessoryDesiredInstGet(o.AccessoryDesired,
                                  inst.Inputs[i] - ACCESSORY0).AccessoryVal,
                              FNeg1, F1, inst.MinPID[i], inst.MaxPID[i])]

\* the value of slot i: the scaled throttle, the scaled accessory value, or
\* none (ok = FALSE: the slot is skipped by `continue')
ReadInput(o, i) ==
    LET inst == o.TxPIDSettings
    IN  IF inst.Inputs[i] = THROTTLE
        THEN [ok |-> TRUE, op |-> "ManualControlCommandThrottleGet",
              value |-> scale(o.Throttle, inst.ThrottleRange.Min,
                              inst.ThrottleRange.Max, inst.MinPID[i], inst.MaxPID[i])]
        ELSE LET a == AccessoryDesiredInstGet(o.AccessoryDesired,
                                              inst.Inputs[i] - ACCESSORY0)
             IN  IF a.ret = 0
                 THEN [ok |-> TRUE, op |-> "AccessoryDesiredInstGet",
                       value |-> scale(a.AccessoryVal, FNeg1, F1,
                                       inst.MinPID[i], inst.MaxPID[i])]
                 ELSE [ok |-> FALSE, op |-> "AccessoryDesiredInstGet",
                       value |-> F0]

\* Faulty variant of SlotStep (sensitivity of C6): a DISABLED slot is taken
\* for the first target of the switch.
SlotStep_DisabledAsFirst(o, i, st) ==
    LET r == ReadInput(o, i)
        s1 == [st EXCEPT !.ops = Append(@, r.op)]
        pid == IF o.TxPIDSettings.PIDs[i] = "DISABLED"
               THEN "ROLLRATEKP" ELSE o.TxPIDSettings.PIDs[i]
    IN  IF r.ok THEN Dispatch(pid, r.value, s1) ELSE s1

\* one pass of the loop body for slot i
SlotStep(o, i, st) ==
    IF o.TxPIDSettings.PIDs[i] = "DISABLED"
    THEN st
    ELSE LET r == ReadInput(o, i)
             s1 == [st EXCEPT !.ops = Append(@, r.op)]
         IN  IF r.ok THEN Dispatch(o.TxPIDSettings.PIDs[i], r.value, s1) ELSE s1

\* for (i = 0; i < TXPIDSETTINGS_PIDS_NUMELEM; i++), from slot i on; the loop
\* ends where PIOS_Assert(0) stops the firmware
RECURSIVE SlotLoop(_, _, _)
SlotLoop(o, i, st) ==
    IF i > NUMELEM \/ st.asserted
    THEN st
    ELSE SlotLoop(o, i + 1, SlotStep(o, i, st))


\* Faulty variant of LoadBank (sensitivity of C15): the default case gets
\* bank1 and goes on.
LoadBank_DefaultBank1(o) ==
    CASE o.TxPIDSettings.UpdateMode = 1 ->
            [ok |-> TRUE, bank |-> o.Bank2, op |-> "StabilizationSettingsBank2Get"]
      [] o.TxPIDSettings.UpdateMode = 2 ->
            [ok |-> TRUE, bank |-> o.Bank2, op |-> "StabilizationSettingsBank2Get"]
      [] OTHER ->
            [ok |-> TRUE, bank |-> o.Bank1, op |-> "StabilizationSettingsBank1Get"]

\* the first switch on inst.UpdateMode: the bank loaded and the call made
LoadBank(o) ==
    CASE o.TxPIDSettings.UpdateMode = 0 ->
            [ok |-> TRUE, bank |-> o.Bank1, op |-> "StabilizationSettingsBank1Get"]
      [] o.TxPIDSettings.UpdateMode = 1 ->
            [ok |-> TRUE, bank |-> o.Bank2, op |-> "StabilizationSettingsBank2Get"]
      [] o.TxPIDSettings.UpdateMode = 2 ->
            [ok |-> TRUE, bank |-> o.Bank2, op |-> "StabilizationSettingsBank2Get"]
      [] OTHER ->
            [ok |-> FALSE, bank |-> o.Bank1, op |-> "none"]

\* Faulty variant of StoreBank (sensitivity of C13): case 2 of the second
\* switch sets bank3 while case 2 of the first gets bank2.
StoreBank_Case2Bank3(o, bank) ==
    CASE o.TxPIDSettings.UpdateMode = 0 ->
            [o |-> [o EXCEPT !.Bank1 = bank], ops |-> <<"StabilizationSettingsBank1Set">>]
      [] o.TxPIDSettings.UpdateMode = 1 ->
            [o |-> [o EXCEPT !.Bank2 = bank], ops |-> <<"StabilizationSettingsBank2Set">>]
      [] o.TxPIDSettings.UpdateMode = 2 ->
            [o |-> [o EXCEPT !.Bank3 = bank], ops |-> <<"StabilizationSettingsBank3Set">>]
      [] OTHER ->
            [o |-> o, ops |-> <<>>]

\* the second switch on inst.UpdateMode: the objects after the bank is set
StoreBank(o, bank) ==
    CASE o.TxPIDSettings.UpdateMode = 0 ->
            [o |-> [o EXCEPT !.Bank1 = bank], ops |-> <<"StabilizationSettingsBank1Set">>]
      [] o.TxPIDSettings.UpdateMode = 1 ->
            [o |-> [o EXCEPT !.Bank2 = bank], ops |-> <<"StabilizationSettingsBank2Set">>]
      [] o.TxPIDSettings.UpdateMode = 2 ->
            [o |-> [o EXCEPT !.Bank2 = bank], ops |-> <<"StabilizationSettingsBank2Set">>]
      [] OTHER ->
            [o |-> o, ops |-> <<>>]

\* if (inst.UpdateMode == TXPIDSETTINGS_UPDATEMODE_NEVER) return;
ModeNever(o) ==
    o.TxPIDSettings.UpdateMode = TXPIDSETTINGS_UPDATEMODE_NEVER

\* Faulty variant of ModeDisarmed (sensitivity of C1): the armed state is
\* tested the wrong way round.
ModeDisarmed_WhenArmed(o) ==
    /\ o.TxPIDSettings.UpdateMode = TXPIDSETTINGS_UPDATEMODE_WHENARMED
    /\ o.Armed # "DISARMED"

\* if (UpdateMode == WHENARMED && armed == FLIGHTSTATUS_ARMED_DISARMED) return;
ModeDisarmed(o) ==
    /\ o.TxPIDSettings.UpdateMode = TXPIDSETTINGS_UPDATEMODE_WHENARMED
    /\ o.Armed = "DISARMED"

\* Faulty variant of Publish (sensitivity of C3): the settings are set
\* whether or not needsUpdateStab is set.
Publish_StabAlways(o, st) ==
    LET o1 == [o EXCEPT !.StabilizationSettings = st.stab]
        ops1 == Append(st.ops, "StabilizationSettingsSet")
        sb == StoreBank(o1, st.bank)
    IN  IF st.needsUpdateBank # 0
        THEN [o |-> sb.o, ops |-> ops1 \o sb.ops, asserted |-> FALSE]
        ELSE [o |-> o1, ops |-> ops1, asserted |-> FALSE]

\* Faulty variant of Publish (sensitivity of C14): the bank is set before the
\* settings.
Publish_BankFirst(o, st) ==
    LET sb == IF st.needsUpdateBank # 0 THEN StoreBank(o, st.bank)
              ELSE [o |-> o, ops |-> <<>>]
    IN  IF st.needsUpdateStab # 0
        THEN [o |-> [sb.o EXCEPT !.StabilizationSettings = st.stab],
              ops |-> st.ops \o sb.ops \o <<"StabilizationSettingsSet">>,
              asserted |-> FALSE]
        ELSE [o |-> sb.o, ops |-> st.ops \o sb.ops, asserted |-> FALSE]

\* if (needsUpdateStab) ...; if (needsUpdateBank) ...
Publish(o, st) ==
    LET o1 == IF st.needsUpdateStab # 0
              THEN [o EXCEPT !.StabilizationSettings = st.stab] ELSE o
        ops1 == IF st.needsUpdateStab # 0
                THEN Append(st.ops, "StabilizationSettingsSet") ELSE st.ops
        sb == StoreBank(o1, st.bank)
    IN  IF st.needsUpdateBank # 0
        THEN [o |-> sb.o, ops |-> ops1 \o sb.ops, asserted |-> FALSE]
        ELSE [o |-> o1, ops |-> ops1, asserted |-> FALSE]

\* static void updatePIDs(UAVObjEvent *ev) on the objects o: the objects
\* after the call, the UAVObject calls made, and whether PIOS_Assert(0) fired
updatePIDs(ev, o) ==
    IF ev.obj # "AccessoryDesired"
    THEN [o |-> o, ops |-> <<>>, asserted |-> FALSE]
    ELSE IF ModeNever(o)
    THEN [o |-> o, ops |-> <<"TxPIDSettingsGet">>, asserted |-> FALSE]
    ELSE IF ModeDisarmed(o)
    THEN [o |-> o, ops |-> <<"TxPIDSettingsGet", "FlightStatusArmedGet">>,
          asserted |-> FALSE]
    ELSE LET lb == LoadBank(o)
         IN  IF ~lb.ok
             THEN [o |-> o, ops |-> <<"TxPIDSettingsGet", "FlightStatusArmedGet">>,
                   asserted |-> FALSE]
             ELSE LET st0 == [bank |-> lb.bank, stab |-> o.StabilizationSettings,
                              needsUpdateBank |-> 0, needsUpdateStab |-> 0,
                              ops |-> <<"TxPIDSettingsGet", "FlightStatusArmedGet",
                                        lb.op, "StabilizationSettingsGet">>,
                              asserted |-> FALSE]
                      st == SlotLoop(o, 1, st0)
                  IN  IF st.asserted
                      THEN [o |-> o, ops |-> st.ops, asserted |-> TRUE]
                      ELSE Publish(o, st)

\* ------------------------------------------------------------------------
\* Bounds of the model
\* ------------------------------------------------------------------------

\* inst.UpdateMode is a uint8: the model draws it from 0 .. MaxMode
MaxMode == 3
\* ticks of the periodic callback in one behaviour
MaxTicks == 2

\* the orders the generator may have numbered the three UpdateMode options in
UpdateModeEnums ==
    {e \in [{"NEVER", "WHENARMED", "ALWAYS"} -> 0 .. 2] :
        \A a, b \in DOMAIN e : a # b => e[a] # e[b]}

\* the targets the model configures a slot with
PidChoices ==
    {"DISABLED", "ROLLRATEKP", "ROLLPITCHRATEKP", "GYROTAU", INVALIDPID}
\* the inputs the model configures the slots with: the throttle for every
\* slot, or the first accessory channel for one slot and the throttle for
\* the others
InputChoices ==
    {[i \in Slots |-> THROTTLE]} \cup
    {[i \in Slots |-> IF i = k THEN ACCESSORY0 ELSE THROTTLE] : k \in Slots}
\* MinPID and MaxPID of the slots: an increasing and a decreasing range
MinPIDs == [i \in Slots |-> IF i % 2 = 1 THEN <<0, 1>> ELSE <<3, 1>>]
MaxPIDs == [i \in Slots |-> IF i % 2 = 1 THEN <<3, 1>> ELSE <<0, 1>>]
\* the values the throttle and an accessory channel take
ThrottleValues == {<<3, 1>>, <<4, 1>>}
AccessoryValues == {<<-1, 2>>}
ArmedValues == {"DISARMED", "ARMED"}
\* the values PitchRatePID.Kp of the banks starts with (the other gains start at 0)
GainValues == {<<0, 1>>, <<3, 1>>}

\* The settings the model starts with are drawn from three sets:
\* GateSettings, every UpdateMode (under every numbering of the options) with
\* two slot configurations; SlotSettings, every assignment of PidChoices to
\* the slots with each of InputChoices and the gate open; TableSettings,
\* every target of the switch in the first slot.
ThrottleRanges == {[Min |-> <<0, 1>>, Max |-> <<4, 1>>]}
GateSettings ==
    [UpdateMode : 0 .. MaxMode,
     PIDs : {[i \in Slots |-> IF i = 1 THEN "ROLLPITCHRATEKP" ELSE "GYROTAU"],
             [i \in Slots |-> IF i = 1 THEN "GYROTAU" ELSE "ROLLRATEKP"]},
     Inputs : {[i \in Slots |-> IF i = 1 THEN THROTTLE ELSE ACCESSORY0]},
     MinPID : {MinPIDs}, MaxPID : {MaxPIDs}, ThrottleRange : ThrottleRanges]
SlotSettings ==
    [UpdateMode : {2},
     PIDs : [Slots -> PidChoices],
     Inputs : InputChoices,
     MinPID : {MinPIDs}, MaxPID : {MaxPIDs}, ThrottleRange : ThrottleRanges]
TableSettings ==
    [UpdateMode : {2},
     PIDs : {[i \in Slots |-> IF i = 1 THEN p ELSE "DISABLED"] : p \in KnownTargets},
     Inputs : {[i \in Slots |-> THROTTLE]},
     MinPID : {MinPIDs}, MaxPID : {MaxPIDs}, ThrottleRange : ThrottleRanges]
\* a numbering of the options under which the selector value 2 is ALWAYS, so
\* that a tick with UpdateMode = 2 passes the gate whatever the armed state is
AlwaysIsTwo == [NEVER |-> 0, WHENARMED |-> 1, ALWAYS |-> 2]

DefaultSettings ==
    [UpdateMode |-> 0,
     PIDs |-> [i \in Slots |-> "DISABLED"],
     Inputs |-> [i \in Slots |-> THROTTLE],
     MinPID |-> MinPIDs,
     MaxPID |-> MaxPIDs,
     ThrottleRange |-> [Min |-> <<0, 1>>, Max |-> <<4, 1>>]]

Snapshot(o) ==
    [Bank1 |-> o.Bank1, Bank2 |-> o.Bank2, Bank3 |-> o.Bank3,
     StabilizationSettings |-> o.StabilizationSettings]

\* ------------------------------------------------------------------------
\* The state machine
\* ------------------------------------------------------------------------

TickInit ==
    /\ \/ /\ hwsettings = "DISABLED"
          /\ updateModeEnum \in UpdateModeEnums
          /\ txpidsettings = DefaultSettings
          /\ bank1 = BankOf(F0)
       \/ /\ hwsettings = "ENABLED"
          /\ updateModeEnum \in UpdateModeEnums
          /\ txpidsettings \in GateSettings
          /\ \E g \in GainValues : bank1 = [BankOf(F0) EXCEPT !.PitchRatePID.Kp = g]
       \/ /\ hwsettings = "ENABLED"
          /\ updateModeEnum = AlwaysIsTwo
          /\ txpidsettings \in SlotSettings \cup TableSettings
          /\ bank1 = BankOf(F0)
    /\ bank2 = bank1
    /\ bank3 = bank1
    /\ flightstatus = "DISARMED"
    /\ throttle = <<4, 1>>
    /\ accessorydesired = <<>>
    /\ stabsettings = [GyroTau |-> F0, Others |-> F0]
    /\ initialized = {}
    /\ callbacks = <<>>
    /\ initret = <<>>
    /\ halted = FALSE
    /\ ops = <<>>
    /\ pre = Snapshot(Objs)
    /\ consec = 0
    /\ nticks = 0

ScaleArgs(S) == [val : S, inMin : S, inMax : S, outMin : S, outMax : S]

\* no tick is under way: the locals of updatePIDs do not exist
Idle ==
    [pc |-> "idle",
     st |-> [bank |-> BankOf(F0), stab |-> [GyroTau |-> F0, Others |-> F0],
             needsUpdateBank |-> 0, needsUpdateStab |-> 0,
             ops |-> <<>>, asserted |-> FALSE]]

Init ==
    /\ TickInit
    /\ scaleIn = [val |-> F0, inMin |-> F0, inMax |-> F1, outMin |-> F0, outMax |-> F1]
    /\ scaleOut = <<>>
    /\ local = Idle
    /\ late = {}

\* int32_t TxPIDInitialize(void), called once at startup (MODULE_INITCALL)
\* Faulty variant of TxPIDInitialize (sensitivity of C12): the callback is
\* created before the module is found to be disabled.
TxPIDInitialize_CallbackFirst ==
    /\ initret = <<>>
    /\ callbacks' = Append(callbacks, [obj |-> "AccessoryDesired",
                                       instId |-> 0, event |-> 0])
    /\ IF hwsettings = "ENABLED"
       THEN /\ initialized' = initialized \cup
                                {"HwSettings", "TxPIDSettings", "AccessoryDesired"}
            /\ initret' = <<0>>
       ELSE /\ initialized' = initialized \cup {"HwSettings"}
            /\ initret' = <<-1>>
    /\ UNCHANGED <<updateModeEnum, hwsettings, txpidsettings, flightstatus,
                   throttle, accessorydesired, bank1, bank2, bank3, stabsettings,
                   halted, ops, pre, consec, nticks>>
    /\ UNCHANGED <<scaleVars, raceVars>>

\* int32_t TxPIDInitialize(void), called once at startup
TxPIDInitialize ==
    /\ initret = <<>>
    /\ IF hwsettings = "ENABLED"
       THEN /\ initialized' = initialized \cup
                                {"HwSettings", "TxPIDSettings", "AccessoryDesired"}
            /\ callbacks' = Append(callbacks, [obj |-> "AccessoryDesired",
                                               instId |-> 0, event |-> 0])
            /\ initret' = <<0>>
       ELSE /\ initialized' = initialized \cup {"HwSettings"}
            /\ callbacks' = callbacks
            /\ initret' = <<-1>>
    /\ UNCHANGED <<updateModeEnum, hwsettings, txpidsettings, flightstatus,
                   throttle, accessorydesired, bank1, bank2, bank3, stabsettings,
                   halted, ops, pre, consec, nticks>>
    /\ UNCHANGED <<scaleVars, raceVars>>

\* the periodic callback fires: one call of updatePIDs, run to completion
Tick ==
    /\ callbacks # <<>>
    /\ ~halted
    /\ nticks < MaxTicks
    /\ \E r \in {updatePIDs(callbacks[1], Objs)} :
           /\ bank1' = r.o.Bank1
           /\ bank2' = r.o.Bank2
           /\ bank3' = r.o.Bank3
           /\ stabsettings' = r.o.StabilizationSettings
           /\ halted' = r.asserted
           /\ ops' = r.ops
    /\ pre' = Snapshot(Objs)
    /\ consec' = consec + 1
    /\ nticks' = nticks + 1
    /\ UNCHANGED <<updateModeEnum, hwsettings, txpidsettings, flightstatus,
                   throttle, accessorydesired, initialized, callbacks, initret>>
    /\ UNCHANGED <<scaleVars, raceVars>>

\* another task sets FlightStatus.Armed
SetArmed ==
    /\ initret # <<>>
    /\ ~halted
    /\ nticks < MaxTicks
    /\ \E a \in ArmedValues : a # flightstatus /\ flightstatus' = a
    /\ consec' = 0
    /\ ops' = <<>>
    /\ pre' = Snapshot(Objs)
    /\ UNCHANGED <<updateModeEnum, hwsettings, txpidsettings, throttle,
                   accessorydesired, bank1, bank2, bank3, stabsettings,
                   initialized, callbacks, initret, halted, nticks>>
    /\ UNCHANGED <<scaleVars, raceVars>>

\* the receiver task sets ManualControlCommand.Throttle
SetThrottle ==
    /\ initret # <<>>
    /\ ~halted
    /\ nticks < MaxTicks
    /\ \E v \in ThrottleValues : v # throttle /\ throttle' = v
    /\ consec' = 0
    /\ ops' = <<>>
    /\ pre' = Snapshot(Objs)
    /\ UNCHANGED <<updateModeEnum, hwsettings, txpidsettings, flightstatus,
                   accessorydesired, bank1, bank2, bank3, stabsettings,
                   initialized, callbacks, initret, halted, nticks>>
    /\ UNCHANGED <<scaleVars, raceVars>>

\* the receiver task creates instance 0 of AccessoryDesired or sets its value
SetAccessory ==
    /\ initret # <<>>
    /\ ~halted
    /\ nticks < MaxTicks
    /\ \E v \in AccessoryValues :
          /\ accessorydesired # <<v>>
          /\ accessorydesired' = <<v>>
    /\ consec' = 0
    /\ ops' = <<>>
    /\ pre' = Snapshot(Objs)
    /\ UNCHANGED <<updateModeEnum, hwsettings, txpidsettings, flightstatus,
                   throttle, bank1, bank2, bank3, stabsettings, initialized,
                   callbacks, initret, halted, nticks>>
    /\ UNCHANGED <<scaleVars, raceVars>>

Next ==
    \/ TxPIDInitialize
    \/ Tick
    \/ SetArmed
    \/ SetThrottle
    \/ SetAccessory

Spec == Init /\ [][Next]_vars

\* ------------------------------------------------------------------------
\* scale() on its own: one call on arguments drawn from ScaleNums
\* ------------------------------------------------------------------------

\* the arguments are the integers -MaxNum .. MaxNum and two floats whose
\* difference is not a float of MantBits bits
MaxNum == 2
ScaleFractions == {<<-1, 4>>, <<15, 2>>}
ScaleNums == {<<n, 1>> : n \in -MaxNum .. MaxNum} \cup ScaleFractions

ScaleInit ==
    /\ hwsettings = "DISABLED"
    /\ updateModeEnum = AlwaysIsTwo
    /\ txpidsettings = DefaultSettings
    /\ bank1 = BankOf(F0)
    /\ bank2 = bank1
    /\ bank3 = bank1
    /\ flightstatus = "DISARMED"
    /\ throttle = <<4, 1>>
    /\ accessorydesired = <<>>
    /\ stabsettings = [GyroTau |-> F0, Others |-> F0]
    /\ initialized = {}
    /\ callbacks = <<>>
    /\ initret = <<>>
    /\ halted = FALSE
    /\ ops = <<>>
    /\ pre = Snapshot(Objs)
    /\ consec = 0
    /\ nticks = 0
    /\ scaleIn \in ScaleArgs(ScaleNums)
    /\ scaleOut = <<>>
    /\ local = Idle
    /\ late = {}

CallScale ==
    /\ scaleOut = <<>>
    /\ scaleOut' = <<scale(scaleIn.val, scaleIn.inMin, scaleIn.inMax,
                           scaleIn.outMin, scaleIn.outMax)>>
    /\ UNCHANGED <<tickVars, scaleIn, raceVars>>

ScaleNext == CallScale

SpecScale == ScaleInit /\ [][ScaleNext]_vars

\* ------------------------------------------------------------------------
\* updatePIDs call by call, with another task setting the shared records
\* ------------------------------------------------------------------------
\* The callback runs in the event dispatcher's task.  Each UAVObject Get and
\* Set is atomic; between two of them another task can run and set the bank
\* records and the stabilization settings, which it also does field by
\* field through a Get and a Set of the whole record.

\* the targets of the slots, the fields another task sets and the value it
\* sets them to
RacePids == {"DISABLED", "ROLLRATEKP", "GYROTAU"}
OtherBankFields == {<<"YawPI", "Ki">>, <<"RollRatePID", "Kp">>}
OtherStabFields == {<<"StabilizationSettings", "Others">>}
OtherValue == <<5, 1>>
\* the fields another task sets in the course of one tick, at most
MaxLate == 2
RaceSettings ==
    [UpdateMode : 0 .. MaxMode,
     PIDs : [Slots -> RacePids],
     Inputs : {[i \in Slots |-> THROTTLE]},
     MinPID : {MinPIDs}, MaxPID : {MaxPIDs}, ThrottleRange : ThrottleRanges]

\* the module is initialized and its callback registered
RaceInit ==
    /\ hwsettings = "ENABLED"
    /\ updateModeEnum \in UpdateModeEnums
    /\ txpidsettings \in RaceSettings
    /\ bank1 = BankOf(F0)
    /\ bank2 = bank1
    /\ bank3 = bank1
    /\ flightstatus = "ARMED"
    /\ throttle = <<4, 1>>
    /\ accessorydesired = <<>>
    /\ stabsettings = [GyroTau |-> F0, Others |-> F0]
    /\ initialized = {"HwSettings", "TxPIDSettings", "AccessoryDesired"}
    /\ callbacks = <<[obj |-> "AccessoryDesired", instId |-> 0, event |-> 0]>>
    /\ initret = <<0>>
    /\ halted = FALSE
    /\ ops = <<>>
    /\ pre = Snapshot(Objs)
    /\ consec = 0
    /\ nticks = 0
    /\ scaleIn = [val |-> F0, inMin |-> F0, inMax |-> F1, outMin |-> F0, outMax |-> F1]
    /\ scaleOut = <<>>
    /\ local = Idle
    /\ late = {}

raceFrame == <<updateModeEnum, hwsettings, txpidsettings, flightstatus, throttle,
               accessorydesired, initialized, callbacks, initret, consec, scaleVars>>

\* the callback fires: TxPIDSettingsGet, FlightStatusArmedGet and the Get of
\* the first switch; the tick ends here where updatePIDs returns
GetBank ==
    /\ local.pc = "idle"
    /\ ~halted
    /\ nticks < MaxTicks
    /\ callbacks # <<>> /\ callbacks[1].obj = "AccessoryDesired"
    /\ late' = {}
    /\ pre' = Snapshot(Objs)
    /\ IF ModeNever(Objs)
       THEN /\ ops' = <<"TxPIDSettingsGet">>
            /\ local' = Idle
            /\ nticks' = nticks + 1
       ELSE IF ModeDisarmed(Objs) \/ ~LoadBank(Objs).ok
       THEN /\ ops' = <<"TxPIDSettingsGet", "FlightStatusArmedGet">>
            /\ local' = Idle
            /\ nticks' = nticks + 1
       ELSE /\ ops' = <<"TxPIDSettingsGet", "FlightStatusArmedGet", LoadBank(Objs).op>>
            /\ local' = [pc |-> "bank",
                         st |-> [Idle.st EXCEPT !.bank = LoadBank(Objs).bank,
                                                !.ops = ops']]
            /\ nticks' = nticks
    /\ UNCHANGED <<raceFrame, bank1, bank2, bank3, stabsettings, halted>>

\* StabilizationSettingsGet(&stab)
GetStab ==
    /\ local.pc = "bank"
    /\ local' = [pc |-> "stab",
                 st |-> [local.st EXCEPT !.stab = stabsettings,
                                         !.ops = Append(@, "StabilizationSettingsGet")]]
    /\ ops' = local'.st.ops
    /\ pre' = [pre EXCEPT !.StabilizationSettings = stabsettings]
    /\ UNCHANGED <<raceFrame, bank1, bank2, bank3, stabsettings, halted, nticks, late>>

\* the loop over the slots, which reads the inputs and changes the locals
RunLoop ==
    /\ local.pc = "stab"
    /\ \E st \in {SlotLoop(Objs, 1, local.st)} :
          /\ local' = [pc |-> IF st.asserted THEN "idle" ELSE "loop", st |-> st]
          /\ ops' = st.ops
          /\ halted' = st.asserted
    /\ UNCHANGED <<raceFrame, bank1, bank2, bank3, stabsettings, pre, nticks, late>>

\* if (needsUpdateStab) StabilizationSettingsSet(&stab)
SetStab ==
    /\ local.pc = "loop"
    /\ IF local.st.needsUpdateStab # 0
       THEN /\ stabsettings' = local.st.stab
            /\ local' = [pc |-> "stabset",
                         st |-> [local.st EXCEPT
                                    !.ops = Append(@, "StabilizationSettingsSet")]]
       ELSE /\ stabsettings' = stabsettings
            /\ local' = [local EXCEPT !.pc = "stabset"]
    /\ ops' = local'.st.ops
    /\ UNCHANGED <<raceFrame, bank1, bank2, bank3, halted, pre, nticks, late>>

\* if (needsUpdateBank) the Set of the second switch; updatePIDs returns
SetBank ==
    /\ local.pc = "stabset"
    /\ \E sb \in {IF local.st.needsUpdateBank # 0
                   THEN StoreBank(Objs, local.st.bank)
                   ELSE [o |-> Objs, ops |-> <<>>]} :
          /\ bank1' = sb.o.Bank1
          /\ bank2' = sb.o.Bank2
          /\ bank3' = sb.o.Bank3
          /\ ops' = local.st.ops \o sb.ops
    /\ local' = Idle
    /\ nticks' = nticks + 1
    /\ UNCHANGED <<raceFrame, stabsettings, halted, pre, late>>

\* another task sets a field of a bank after the tick's Get of its bank and
\* before the tick's Set of it
OtherSetBank ==
    /\ local.pc \in {"bank", "stab", "loop", "stabset"}
    /\ Cardinality(late) < MaxLate
    /\ \E b \in {"Bank1", "Bank2", "Bank3"}, d \in OtherBankFields :
          /\ \A e \in late : <<e[1], e[2]>> # <<b, d>>
          /\ Objs[b][d[1]][d[2]] # OtherValue
          /\ bank1' = IF b = "Bank1" THEN [bank1 EXCEPT ![d[1]][d[2]] = OtherValue]
                      ELSE bank1
          /\ bank2' = IF b = "Bank2" THEN [bank2 EXCEPT ![d[1]][d[2]] = OtherValue]
                      ELSE bank2
          /\ bank3' = IF b = "Bank3" THEN [bank3 EXCEPT ![d[1]][d[2]] = OtherValue]
                      ELSE bank3
          /\ late' = late \cup {<<b, d, OtherValue>>}
    /\ UNCHANGED <<raceFrame, stabsettings, halted, ops, pre, nticks, local>>

\* another task sets a field of the stabilization settings after the tick's
\* Get of them and before the tick's Set
OtherSetStab ==
    /\ local.pc \in {"stab", "loop"}
    /\ Cardinality(late) < MaxLate
    /\ \E d \in OtherStabFields :
          /\ \A e \in late : <<e[1], e[2]>> # <<"StabilizationSettings", d>>
          /\ stabsettings[d[2]] # OtherValue
          /\ stabsettings' = [stabsettings EXCEPT ![d[2]] = OtherValue]
          /\ late' = late \cup {<<"StabilizationSettings", d, OtherValue>>}
    /\ UNCHANGED <<raceFrame, bank1, bank2, bank3, halted, ops, pre, nticks, local>>

RaceNext ==
    \/ GetBank
    \/ GetStab
    \/ RunLoop
    \/ SetStab
    \/ SetBank
    \/ OtherSetBank
    \/ OtherSetStab

SpecRace == RaceInit /\ [][RaceNext]_vars

\* ------------------------------------------------------------------------
\* Reading a state that a tick has just produced
\* ------------------------------------------------------------------------
\* Right after a tick (consec >= 1) the settings and the inputs are those the
\* tick read, `pre' holds the banks and the stabilization settings as the tick
\* found them, and `ops' the calls it made.

Ticked == consec >= 1
Calls == {ops[k] : k \in DOMAIN ops}
NCalls(names) == Cardinality({k \in DOMAIN ops : ops[k] \in names})
BankSets == {"StabilizationSettingsBank1Set", "StabilizationSettingsBank2Set",
             "StabilizationSettingsBank3Set"}
StabSets == {"StabilizationSettingsSet"}
NoSet == Calls \cap (BankSets \cup StabSets) = {}
NothingChanged == Snapshot(Objs) = pre
\* the tick passed the gate and the bank selection
Passed == Ticked /\ "StabilizationSettingsGet" \in Calls
\* the stored bank the tick loaded, by the Get call it made
Tuned ==
    CASE "StabilizationSettingsBank1Get" \in Calls -> "Bank1"
      [] "StabilizationSettingsBank2Get" \in Calls -> "Bank2"
      [] "StabilizationSettingsBank3Get" \in Calls -> "Bank3"
      [] OTHER -> "none"
\* the objects as the tick found them
PreObjs ==
    [Objs EXCEPT !.Bank1 = pre.Bank1, !.Bank2 = pre.Bank2, !.Bank3 = pre.Bank3,
                 !.StabilizationSettings = pre.StabilizationSettings]

GateIsClosed ==
    \/ txpidsettings.UpdateMode = TXPIDSETTINGS_UPDATEMODE_NEVER
    \/ /\ txpidsettings.UpdateMode = TXPIDSETTINGS_UPDATEMODE_WHENARMED
       /\ flightstatus = "DISARMED"

\* slot i is enabled and its input can be read; the value scaled for it
PidOf(i) == txpidsettings.PIDs[i]
Readable(i) ==
    \/ txpidsettings.Inputs[i] = THROTTLE
    \/ AccessoryDesiredInstGet(accessorydesired,
                               txpidsettings.Inputs[i] - ACCESSORY0).ret = 0
Active(i) == PidOf(i) # "DISABLED" /\ Readable(i)
SlotValue(i) == ReadInput(Objs, i).value
\* the destinations of a target, the settings' GyroTau among them
Targets(pid) ==
    IF pid = "GYROTAU" THEN {<<"StabilizationSettings", "GyroTau">>}
    ELSE {Dest(pid)[k] : k \in DOMAIN Dest(pid)}
\* field d of the bank named b, or of the settings, in the records s
Field(s, b, d) ==
    IF d[1] = "StabilizationSettings" THEN s.StabilizationSettings[d[2]]
    ELSE s[b][d[1]][d[2]]
\* x and y are further than epsilon from each other, by the test of update()
Far(x, y) == FGt(fabsf(FSub(x, y)), EPSILON)
\* some slot's value is further than epsilon from a destination it has in the
\* bank (inBank) or in the settings, as the tick found that field
SomeSlotFar(inBank) ==
    \E i \in Slots : Active(i) /\
        \E d \in Targets(PidOf(i)) :
            /\ (d[1] # "StabilizationSettings") = inBank
            /\ Far(Field(pre, Tuned, d), SlotValue(i))

\* ------------------------------------------------------------------------
\* C1
\* ------------------------------------------------------------------------

\* C1: a tick run with UpdateMode = NEVER, or with UpdateMode = WHENARMED
\* while the flight status is DISARMED, sets neither the settings nor any
\* bank and leaves every record as it was, whatever the slots and the inputs
\* are, and so does every further tick while the gate stays closed.
C1_ClosedGateNoWrites ==
    (Ticked /\ GateIsClosed) => (NoSet /\ NothingChanged)

\* two ticks in a row at the gate closed by WHENARMED and DISARMED, with a
\* slot whose value is far from its field
C1_Witness ==
    /\ consec = 2
    /\ txpidsettings.UpdateMode = TXPIDSETTINGS_UPDATEMODE_WHENARMED
    /\ txpidsettings.UpdateMode # TXPIDSETTINGS_UPDATEMODE_NEVER
    /\ flightstatus = "DISARMED"
    /\ \E i \in Slots : Active(i) /\ PidOf(i) = "ROLLPITCHRATEKP"
          /\ Far(bank2.RollRatePID.Kp, SlotValue(i))
          /\ Far(bank1.RollRatePID.Kp, SlotValue(i))

\* ------------------------------------------------------------------------
\* C3
\* ------------------------------------------------------------------------

\* C3: a tick sets the stabilization settings at most once and a bank at most
\* once, and it sets each of the two only if update() changed a field of it
\* during the tick, that is, only if some slot's value was further than
\* epsilon from a destination it has in that record.
C3_SetOnceAndOnlyIfChanged ==
    Ticked =>
        /\ NCalls(StabSets) <= 1
        /\ NCalls(BankSets) <= 1
        /\ (NCalls(StabSets) = 1 => SomeSlotFar(FALSE))
        /\ (NCalls(BankSets) = 1 => SomeSlotFar(TRUE))

\* a tick that set both records
C3_Witness ==
    Ticked /\ NCalls(StabSets) = 1 /\ NCalls(BankSets) = 1

\* ------------------------------------------------------------------------
\* C2
\* ------------------------------------------------------------------------

\* slot i is the only enabled slot with a readable input that names d
SoleWriter(i, d) ==
    \A j \in Slots : (j # i /\ Active(j)) => d \notin Targets(PidOf(j))

\* C2 as claimed: after a tick that passed the gate and the bank selection
\* and ran to its end, every destination of every enabled slot with a
\* readable input that was further than epsilon from the slot's scaled value
\* holds that value in the stored record, also where several slots name the
\* same destination.
C2_Claimed ==
    (Passed /\ ~halted) =>
        \A i \in Slots : Active(i) =>
            \A d \in Targets(PidOf(i)) :
                Far(Field(pre, Tuned, d), SlotValue(i))
                    => Field(Objs, Tuned, d) = SlotValue(i)

\* C2 as amended: the same, for the destinations that no other enabled slot
\* with a readable input names; the bank is the one the tick loaded.
C2_SoleWriterStored ==
    (Passed /\ ~halted) =>
        \A i \in Slots : Active(i) =>
            \A d \in Targets(PidOf(i)) :
                (SoleWriter(i, d) /\ Far(Field(pre, Tuned, d), SlotValue(i)))
                    => Field(Objs, Tuned, d) = SlotValue(i)

\* a tick stored a slot's value in a field that was far from it, beside
\* another enabled slot that names another destination
C2_Witness ==
    /\ Passed /\ ~halted
    /\ \E i, j \in Slots :
          /\ i # j /\ Active(i) /\ Active(j)
          /\ Targets(PidOf(j)) # {}
          /\ \E d \in Targets(PidOf(i)) :
                /\ SoleWriter(i, d)
                /\ Far(Field(pre, Tuned, d), SlotValue(i))
                /\ Field(Objs, Tuned, d) = SlotValue(i)

\* ------------------------------------------------------------------------
\* C4
\* ------------------------------------------------------------------------

\* the values of the slots that share a destination are within epsilon of
\* one another
SharedValuesClose ==
    \A i, j \in Slots :
        (Active(i) /\ Active(j) /\ Targets(PidOf(i)) \cap Targets(PidOf(j)) # {})
            => ~Far(SlotValue(i), SlotValue(j))

\* C4 as claimed: the second of two ticks run on the same settings, armed
\* state, throttle and accessory values, with no other writer between them,
\* sets no record.
C4_Claimed == consec >= 2 => NoSet

\* C4 as amended: the second tick sets no record when the scaled values of the
\* enabled slots that share a destination field are within epsilon of one
\* another (as they are when no two slots share a destination).
C4_SecondTickNoSet ==
    (consec >= 2 /\ SharedValuesClose) => (NoSet /\ NothingChanged)

\* a second tick that passed the gate with a slot whose value the first tick
\* had to store, and with two slots sharing a destination
C4_Witness ==
    /\ consec >= 2 /\ Passed /\ ~halted /\ SharedValuesClose
    /\ \E i \in Slots : Active(i) /\ \E d \in Targets(PidOf(i)) :
          /\ Field(Objs, Tuned, d) = SlotValue(i)
          /\ SlotValue(i) # F0
    /\ \E i, j \in Slots : i # j /\ Active(i) /\ Active(j)
          /\ Targets(PidOf(i)) \cap Targets(PidOf(j)) # {}

\* ------------------------------------------------------------------------
\* C5
\* ------------------------------------------------------------------------

\* the targets that name a roll field and a pitch field
Coupled == {p \in BankTargets : Len(Dest(p)) = 2}
\* no enabled slot with a readable input after slot i names a destination of i
NoLaterWriter(i) ==
    \A j \in Slots : (j > i /\ Active(j)) =>
        Targets(PidOf(j)) \cap Targets(PidOf(i)) = {}
NoOtherWriter(i) ==
    \A j \in Slots : (j # i /\ Active(j)) =>
        Targets(PidOf(j)) \cap Targets(PidOf(i)) = {}

\* C5 as claimed: after a tick that processed a slot with a ROLLPITCH...
\* target, the roll field and the pitch field of the stored bank are equal,
\* whatever they held before and whatever the other slots are.
C5_Claimed ==
    (Passed /\ ~halted) =>
        \A i \in Slots : (Active(i) /\ PidOf(i) \in Coupled) =>
            Field(Objs, Tuned, Dest(PidOf(i))[1])
                = Field(Objs, Tuned, Dest(PidOf(i))[2])

\* C5 as amended: after such a tick, when no later slot names either field,
\* the roll field and the pitch field of the bank the tick loaded are each
\* within epsilon of the slot's scaled value; they are equal to it, and so to
\* each other, when no other slot names either field and both were further
\* than epsilon from it before the tick.
C5_CoupledWithinEpsilon ==
    (Passed /\ ~halted) =>
        \A i \in Slots : (Active(i) /\ PidOf(i) \in Coupled) =>
            LET r == Dest(PidOf(i))[1]
                q == Dest(PidOf(i))[2]
                v == SlotValue(i)
            IN  /\ NoLaterWriter(i) =>
                      /\ ~Far(Field(Objs, Tuned, r), v)
                      /\ ~Far(Field(Objs, Tuned, q), v)
                /\ (NoOtherWriter(i) /\ Far(Field(pre, Tuned, r), v)
                                     /\ Far(Field(pre, Tuned, q), v)) =>
                      /\ Field(Objs, Tuned, r) = v
                      /\ Field(Objs, Tuned, q) = v

\* a tick left the roll field as it was, within epsilon of the coupled slot's
\* value, and stored that value in the pitch field
C5_Witness ==
    /\ Passed /\ ~halted
    /\ \E i \in Slots :
          /\ Active(i) /\ PidOf(i) \in Coupled /\ NoLaterWriter(i)
          /\ Field(Objs, Tuned, Dest(PidOf(i))[2]) = SlotValue(i)
          /\ Field(Objs, Tuned, Dest(PidOf(i))[1]) # SlotValue(i)
          /\ Far(Field(pre, Tuned, Dest(PidOf(i))[2]), SlotValue(i))

\* ------------------------------------------------------------------------
\* C6
\* ------------------------------------------------------------------------

\* the entries a disabled slot's Inputs, MinPID and MaxPID are replaced by
Alternatives ==
    {[in |-> THROTTLE, mn |-> <<7, 1>>, mx |-> <<0, 1>>],
     [in |-> ACCESSORY0, mn |-> <<0, 1>>, mx |-> <<7, 1>>],
     [in |-> ACCESSORY0 + 1, mn |-> <<7, 1>>, mx |-> <<7, 1>>]}
Replaced(o, i, in, mn, mx) ==
    [o EXCEPT !.TxPIDSettings.Inputs[i] = in,
              !.TxPIDSettings.MinPID[i] = mn,
              !.TxPIDSettings.MaxPID[i] = mx]

\* C6: a tick with every slot DISABLED sets no record and changes none; and
\* what a tick stores and the calls it makes are those of the same tick with
\* the Inputs, MinPID and MaxPID entries of a DISABLED slot replaced by any
\* other values.
C6_DisabledSlotNoEffect ==
    Ticked =>
        /\ (\A i \in Slots : PidOf(i) = "DISABLED") => (NoSet /\ NothingChanged)
        /\ \A i \in Slots : PidOf(i) = "DISABLED" =>
              \A a \in Alternatives :
                  updatePIDs(callbacks[1], Replaced(PreObjs, i, a.in, a.mn, a.mx))
                      = [o |-> Replaced(Objs, i, a.in, a.mn, a.mx), ops |-> ops,
                         asserted |-> halted]

\* a tick stored another slot's value while a DISABLED slot named a readable
\* accessory whose value, scaled to the slot's range, was far from the gains
\* the tick found
C6_Witness ==
    /\ Passed /\ NCalls(BankSets) = 1
    /\ \E i \in Slots :
          /\ PidOf(i) = "DISABLED"
          /\ txpidsettings.Inputs[i] = ACCESSORY0
          /\ Readable(i)
          /\ Far(SlotValue(i), Field(pre, Tuned, <<"RollRatePID", "Kp">>))

\* ------------------------------------------------------------------------
\* C7
\* ------------------------------------------------------------------------

OnlyGyroTau ==
    /\ \E i \in Slots : PidOf(i) = "GYROTAU"
    /\ \A i \in Slots : PidOf(i) \in {"DISABLED", "GYROTAU"}

\* C7: a tick changes no field of the settings but GyroTau; a tick whose
\* enabled slots all name GYROTAU sets no bank and changes none, and sets the
\* settings when a slot's value is further than epsilon from GyroTau; a tick
\* none of whose enabled, readable slots names GYROTAU does not set the
\* settings.
C7_GyroTauOnlySettings ==
    Ticked =>
        /\ stabsettings.Others = pre.StabilizationSettings.Others
        /\ OnlyGyroTau =>
              /\ NCalls(BankSets) = 0
              /\ bank1 = pre.Bank1 /\ bank2 = pre.Bank2 /\ bank3 = pre.Bank3
              /\ (Passed /\ SomeSlotFar(FALSE)) => NCalls(StabSets) = 1
        /\ (\A i \in Slots : Active(i) => PidOf(i) # "GYROTAU") =>
              /\ NCalls(StabSets) = 0
              /\ stabsettings = pre.StabilizationSettings

\* a tick with GYROTAU slots only set the settings, GyroTau holding the value
C7_Witness ==
    /\ Ticked /\ OnlyGyroTau /\ NCalls(StabSets) = 1
    /\ stabsettings.GyroTau # pre.StabilizationSettings.GyroTau
    /\ \E i \in Slots : Active(i) /\ stabsettings.GyroTau = SlotValue(i)

\* ------------------------------------------------------------------------
\* C8
\* ------------------------------------------------------------------------

\* C8 as claimed: a tick that proceeds loads bank1 for the selector value 0,
\* bank2 for 1 and bank3 for 2, and sets the bank it loaded.
C8_Claimed ==
    Passed =>
        /\ txpidsettings.UpdateMode = 0 => Tuned = "Bank1"
        /\ txpidsettings.UpdateMode = 1 => Tuned = "Bank2"
        /\ txpidsettings.UpdateMode = 2 => Tuned = "Bank3"
        /\ "StabilizationSettingsBank2Set" \in Calls => txpidsettings.UpdateMode = 1

\* ------------------------------------------------------------------------
\* C9
\* ------------------------------------------------------------------------

FMin(a, b) == IF FLe(a, b) THEN a ELSE b
FMax(a, b) == IF FLe(a, b) THEN b ELSE a

\* C9: the value scale() returns lies between outMin and outMax, in either
\* order of the two, for a val in or out of the input range, also when
\* inMax <= inMin.  The code rounds outMax - outMin, the product and the sum,
\* and the rounded sum can lie beyond outMax.
C9_ScaleWithinOutputRange ==
    scaleOut # <<>> =>
        /\ FLe(FMin(scaleIn.outMin, scaleIn.outMax), scaleOut[1])
        /\ FLe(scaleOut[1], FMax(scaleIn.outMin, scaleIn.outMax))

\* ------------------------------------------------------------------------
\* C10
\* ------------------------------------------------------------------------

\* every enabled slot's value is within epsilon of its destinations, as the
\* tick found them
Steady ==
    \A i \in Slots : Active(i) =>
        \A d \in Targets(PidOf(i)) : ~Far(Field(pre, Tuned, d), SlotValue(i))

\* C10: a tick that finds every enabled slot's scaled value within epsilon of
\* the slot's destination fields sets no record and changes no field.
C10_SteadyStateNoWrites ==
    (Passed /\ Steady) => (NoSet /\ NothingChanged)

\* the second tick found the field an earlier tick had stored within epsilon
\* of the slot's value, which the throttle had changed in between
C10_Witness ==
    /\ nticks = 2 /\ consec = 1 /\ Passed /\ ~halted /\ Steady
    /\ \E i \in Slots : Active(i) /\ \E d \in Targets(PidOf(i)) :
          /\ Field(pre, Tuned, d) # SlotValue(i)
          /\ Field(pre, Tuned, d) # F0

\* ------------------------------------------------------------------------
\* C11
\* ------------------------------------------------------------------------

\* slot i names a target that is none of the switch's cases
Unrecognized(i) == PidOf(i) \notin KnownTargets \cup {"DISABLED"}

\* C11 as claimed: a tick that passes the gate and the bank selection with an
\* enabled slot whose target is not recognized reaches PIOS_Assert(0),
\* whatever the slot's input is and whether or not it can be read.  The code
\* leaves the loop body with `continue' before the switch when the accessory
\* cannot be read.
C11_Claimed ==
    (Passed /\ \E i \in Slots : Unrecognized(i)) => halted

\* ------------------------------------------------------------------------
\* C12
\* ------------------------------------------------------------------------

\* TxPIDInitialize has returned 0 exactly if the module is ENABLED, with the
\* callback registered once, on AccessoryDesired
InitSucceeds ==
    /\ initret = <<0>> <=> hwsettings = "ENABLED"
    /\ initret = <<0>> =>
          /\ Len(callbacks) = 1
          /\ callbacks[1].obj = "AccessoryDesired"
\* after the return of -1 no callback is registered, no tick has run and no
\* record of the tuner holds anything but what it held at startup
InitFailsQuietly ==
    /\ callbacks = <<>>
    /\ nticks = 0 /\ ops = <<>>
    /\ txpidsettings = DefaultSettings
    /\ bank1 = BankOf(F0) /\ bank2 = bank1 /\ bank3 = bank1
    /\ stabsettings = [GyroTau |-> F0, Others |-> F0]

\* C12 as claimed: TxPIDInitialize returns 0 exactly if the module is ENABLED
\* and then has registered the callback once on AccessoryDesired; otherwise it
\* returns -1 with no callback registered and no record initialized or
\* modified.
C12_Claimed ==
    initret # <<>> =>
        /\ InitSucceeds
        /\ initret = <<-1>> => (InitFailsQuietly /\ initialized = {})

\* C12 as amended: the same, but on the return of -1 the hardware-settings
\* record, and no other, has been initialized (HwSettingsInitialize is
\* called before the option is read).
C12_InitIffEnabled ==
    initret # <<>> =>
        /\ InitSucceeds
        /\ initret = <<0>> =>
              initialized = {"HwSettings", "TxPIDSettings", "AccessoryDesired"}
        /\ initret = <<-1>> => (InitFailsQuietly /\ initialized = {"HwSettings"})

\* TxPIDInitialize returned -1 for a DISABLED module, and another module set
\* the armed state afterwards
C12_Witness ==
    /\ initret = <<-1>> /\ hwsettings = "DISABLED"
    /\ initialized = {"HwSettings"} /\ callbacks = <<>>
    /\ flightstatus = "ARMED"

\* ------------------------------------------------------------------------
\* C13
\* ------------------------------------------------------------------------

BankNames == {"Bank1", "Bank2", "Bank3"}
GetOf(b) == "StabilizationSettings" \o b \o "Get"
SetOf(b) == "StabilizationSettings" \o b \o "Set"

\* C13: a tick sets no bank but the one it got, and leaves the other banks
\* as they were.
C13_SameBankWritten ==
    Ticked =>
        \A b \in BankNames :
            /\ SetOf(b) \in Calls => GetOf(b) \in Calls
            /\ b # Tuned => Objs[b] = pre[b]

\* a tick run with the selector 2 set the bank it had got and changed it
C13_Witness ==
    /\ Passed /\ txpidsettings.UpdateMode = 2
    /\ NCalls(BankSets) = 1
    /\ \E b \in BankNames : b = Tuned /\ SetOf(b) \in Calls /\ Objs[b] # pre[b]

\* ------------------------------------------------------------------------
\* C14
\* ------------------------------------------------------------------------

BankGets == {GetOf(b) : b \in BankNames}
\* the calls, in order, a tick begins with
FirstReads(k) ==
    CASE k = 1 -> {"TxPIDSettingsGet"}
      [] k = 2 -> {"FlightStatusArmedGet"}
      [] k = 3 -> BankGets
      [] k = 4 -> {"StabilizationSettingsGet"}
IsSet(k) == ops[k] \in BankSets \cup StabSets

\* C14: a tick reads the configuration, the armed state, the bank and the
\* settings in this order; every read, those of the slot loop too, comes
\* before every set; and the settings are set before the bank.
C14_ReadsThenWrites ==
    Ticked =>
        /\ \A k \in DOMAIN ops : k <= 4 => ops[k] \in FirstReads(k)
        /\ \A j, k \in DOMAIN ops : (IsSet(j) /\ ~IsSet(k)) => k < j
        /\ \A j, k \in DOMAIN ops :
              (ops[j] \in StabSets /\ ops[k] \in BankSets) => j < k

\* a tick read both slots' inputs and then set the settings and the bank
C14_Witness ==
    /\ Ticked /\ Len(ops) = 6 + NUMELEM
    /\ ops[5 + NUMELEM] \in StabSets
    /\ ops[6 + NUMELEM] \in BankSets
    /\ \A k \in 5 .. 4 + NUMELEM :
          ops[k] \in {"ManualControlCommandThrottleGet", "AccessoryDesiredInstGet"}

\* ------------------------------------------------------------------------
\* C15
\* ------------------------------------------------------------------------

InputReads == {"ManualControlCommandThrottleGet", "AccessoryDesiredInstGet"}

\* C15: a tick run with a selector that is none of 0, 1, 2 ends before it
\* gets the settings and before it reads the input of any slot; it sets no
\* record and changes no field, whatever the slots and the inputs are.
C15_BadSelectorNoMutation ==
    (Ticked /\ txpidsettings.UpdateMode \notin 0 .. 2) =>
        /\ Calls \cap ({"StabilizationSettingsGet"} \cup BankGets \cup InputReads) = {}
        /\ NoSet /\ NothingChanged
        /\ ~halted

\* a tick run with a selector above 2 and a slot whose value is far from its
\* field in every bank
C15_Witness ==
    /\ Ticked /\ txpidsettings.UpdateMode > 2
    /\ PidOf(1) = "ROLLPITCHRATEKP" /\ Readable(1)
    /\ \A b \in BankNames : Far(SlotValue(1), pre[b].RollRatePID.Kp)

\* ------------------------------------------------------------------------
\* C16
\* ------------------------------------------------------------------------

IsSetCall(c) == c \in BankSets \cup StabSets
\* the objects o with slot i DISABLED
WithoutSlot(o, i) == [o EXCEPT !.TxPIDSettings.PIDs[i] = "DISABLED"]

\* C16: a tick with an enabled slot whose accessory cannot be read stores
\* what the same tick with that slot DISABLED stores, with the same sets and
\* the same end (so the other slots are processed and published, and the
\* slot's fields are as the other slots leave them); and a tick that can read
\* the accessory stores the slot's value in the fields the slot alone names
\* that were further than epsilon from it.
C16_AbsentAccessorySkipped ==
    Ticked =>
        /\ \A i \in Slots : (PidOf(i) # "DISABLED" /\ ~Readable(i)) =>
              \A r \in {updatePIDs(callbacks[1], WithoutSlot(PreObjs, i))} :
                  /\ r.o = WithoutSlot(Objs, i)
                  /\ r.asserted = halted
                  /\ SelectSeq(r.ops, IsSetCall) = SelectSeq(ops, IsSetCall)
        /\ (Passed /\ ~halted) =>
              \A i \in Slots :
                  (Active(i) /\ txpidsettings.Inputs[i] # THROTTLE) =>
                      \A d \in Targets(PidOf(i)) :
                          (SoleWriter(i, d) /\ Far(Field(pre, Tuned, d), SlotValue(i)))
                              => Field(Objs, Tuned, d) = SlotValue(i)

\* a tick skipped a slot with a known target whose accessory was absent, and
\* set a record for another slot
C16_Witness ==
    /\ Passed /\ ~halted /\ ~NoSet
    /\ \E i \in Slots :
          /\ PidOf(i) \in KnownTargets /\ ~Readable(i)
          /\ "AccessoryDesiredInstGet" \in Calls
          /\ \A d \in Targets(PidOf(i)) : Field(Objs, Tuned, d) = Field(pre, Tuned, d)

\* ------------------------------------------------------------------------
\* C17
\* ------------------------------------------------------------------------

\* exact sum and difference of two rationals
QAdd(a, b) == Rat(a[1] * b[2] + b[1] * a[2], a[2] * b[2])
QSub(a, b) == Rat(a[1] * b[2] - b[1] * a[2], a[2] * b[2])

\* the call of scale with the arguments of scaleIn and the output bounds
\* exchanged
Reversed ==
    scale(scaleIn.val, scaleIn.inMin, scaleIn.inMax, scaleIn.outMax, scaleIn.outMin)

\* scale(.., a, b) + scale(.., b, a) - (a + b), the sums being exact
ReversalError ==
    QSub(QAdd(scaleOut[1], Reversed), QAdd(scaleIn.outMin, scaleIn.outMax))

\* max(|a|, |b|), which the error is measured against
ReversalTolerance ==
    FMax(fabsf(scaleIn.outMin), fabsf(scaleIn.outMax))

\* C17 as stated: the two results add up to a + b exactly.
C17_Claimed ==
    scaleOut # <<>> => QAdd(scaleOut[1], Reversed) = QAdd(scaleIn.outMin, scaleIn.outMax)

\* C17: scale(val, iMin, iMax, a, b) + scale(val, iMin, iMax, b, a) differs
\* from a + b by at most 2^(4 - MantBits) * max(|a|, |b|).
C17_ReversalWithinTolerance ==
    scaleOut # <<>> =>
        FLe(<<IAbs(ReversalError[1]) * Pow2(MantBits), ReversalError[2] * 16>>,
            ReversalTolerance)

\* a val inside the input range, different output bounds, and a sum that is
\* not a + b
C17_Witness ==
    /\ scaleOut # <<>>
    /\ FLt(scaleIn.inMin, scaleIn.val) /\ FLt(scaleIn.val, scaleIn.inMax)
    /\ scaleIn.outMin # scaleIn.outMax
    /\ ReversalError # F0

\* ------------------------------------------------------------------------
\* C18
\* ------------------------------------------------------------------------

OutLo == FMin(scaleIn.outMin, scaleIn.outMax)
OutHi == FMax(scaleIn.outMin, scaleIn.outMax)
\* what scale returns for the end of the input range that maps to the larger
\* output bound: (hi - lo) * 1.0f + lo, the difference and the sum rounded
UpperEnd == FAdd(FSub(OutHi, OutLo), OutLo)
Increasing == FLe(scaleIn.outMin, scaleIn.outMax)

BankFields ==
    {<<g, f>> : g \in RateGroups, f \in {"Kp", "Ki", "Kd", "ILimit"}} \cup
    {<<g, f>> : g \in AttitudeGroups, f \in {"Kp", "Ki", "ILimit"}}
SettingsFields ==
    {<<"StabilizationSettings", f>> : f \in {"GyroTau", "Others"}}
\* d is a destination of an enabled slot with a readable input
Written(d) == \E i \in Slots : Active(i) /\ d \in Targets(PidOf(i))
\* the calls that read an object
GetCalls ==
    {"TxPIDSettingsGet", "FlightStatusArmedGet", "StabilizationSettingsGet"}
        \cup BankGets \cup InputReads

\* C19: after a tick, a field of a bank record or of the settings record
\* that is not a destination of an enabled slot with a readable input, and
\* every field of a bank the tick did not load, has the value it had when
\* the tick began; the tick leaves the configuration, the flight status, the
\* throttle and the accessory records as they were, and the only Set calls
\* it makes are those of a bank and of the settings.
C19_Frame ==
    Ticked =>
        /\ \A b \in BankNames : \A d \in BankFields :
              (b # Tuned \/ ~Written(d)) => Field(Objs, b, d) = Field(pre, b, d)
        /\ \A d \in SettingsFields :
              ~Written(d) => Field(Objs, Tuned, d) = Field(pre, Tuned, d)
        /\ \A c \in Calls : c \in GetCalls \cup BankSets \cup StabSets
        /\ \A r \in {updatePIDs(callbacks[1], PreObjs)} :
              /\ r.o.TxPIDSettings = txpidsettings
              /\ r.o.Armed = flightstatus
              /\ r.o.Throttle = throttle
              /\ r.o.AccessoryDesired = accessorydesired

\* a tick changed a destination in the bank it loaded and set the bank, which
\* has a field that is no destination and was not 0
C19_Witness ==
    /\ Passed /\ ~halted /\ NCalls(BankSets) = 1
    /\ \E d \in BankFields :
          Written(d) /\ Field(Objs, Tuned, d) # Field(pre, Tuned, d)
    /\ \E d \in BankFields :
          ~Written(d) /\ Field(pre, Tuned, d) # F0
                      /\ Field(Objs, Tuned, d) = Field(pre, Tuned, d)

\* ------------------------------------------------------------------------
\* C20
\* ------------------------------------------------------------------------

\* a tick has run to its end, call by call
TickEnded == local.pc = "idle" /\ nticks >= 1 /\ ~halted
\* d is a destination of an enabled slot
NamedByEnabledSlot(d) ==
    \E i \in Slots : PidOf(i) # "DISABLED" /\ d \in Targets(PidOf(i))

\* C20 as claimed: a field of the bank the tick loaded, or of the settings,
\* that another task set between the tick's Get of the record and the tick's
\* Set of it, and that no enabled slot names, holds the other task's value
\* when the tick has ended.
C20_Claimed ==
    TickEnded =>
        \A e \in late :
            ((e[1] = Tuned \/ e[1] = "StabilizationSettings")
                /\ ~NamedByEnabledSlot(e[2]))
                => Field(Objs, e[1], e[2]) = e[3]

=============================================================================
